---- MODULE Spec2Model ----
(***************************************************************************)
(* A model of extract_letters_batch.py: the affine utilities, the SVG      *)
(* transform parser, the world-transform resolver, the arc-length sampler, *)
(* the gap segmenter, the glyph extractor with its Y flip, the header      *)
(* writer and the a..z sweep of main.                                      *)
(*                                                                         *)
(* Every function of the file is an operator computed the way the code     *)
(* computes it; each specification below draws the function's inputs from  *)
(* a bounded set in its initial states and applies the function in its     *)
(* actions.                                                                *)
(*                                                                         *)
(* Numbers.  Python floats are IEEE-754 binary64 values: an arithmetic     *)
(* operation returns the exact result rounded to the nearest value whose   *)
(* significand has 53 bits, ties to even.  The model holds a coordinate as *)
(* an integer count of the smallest coordinate unit and keeps the rounding *)
(* step, with the significand width scaled down to MantBits so that the    *)
(* magnitudes at which rounding acts fit the integers of TLC.  Integers *)
(* below 2^MantBits, and their sums and products below it, are exact, as   *)
(* integers below 2^53 are in the program.                                 *)
(***************************************************************************)
EXTENDS Integers, Sequences, FiniteSets, TLC

VARIABLES
    pc,          \* position of the function or sweep under check
    out,         \* the value the function under check returned
    points,      \* split_on_gaps: the flat point list
    gap,         \* split_on_gaps, extract_letter_polylines: the gap threshold
    path,        \* sample_path_uniform: the curve (svgpathtools Path)
    step,        \* sample_path_uniform, extract_letter_polylines: the step
    calls,       \* the path.ilength / path.point calls the sampler made
    t,           \* _parse_transform_attr: the transform attribute string
    doc,         \* the parsed SVG tree (etree), read-only
    node,        \* world_transform: the node resolved
    letter_id,   \* extract_letter_polylines: the requested id
    holder,      \* extract_letter_polylines: targets[0]
    nodes,       \* extract_letter_polylines: the path nodes still to sample
    polylines,   \* extract_letter_polylines: the polylines gathered so far
    sampled,     \* number of sample_path_uniform calls made by the extractor
    per_letter,  \* main, write_header: the glyph registry
    f,           \* write_header: the rows written to the header file
    todo,        \* main: the ids of the sweep not yet processed
    log          \* main: the registry writes and write_header calls, in order

splitVars == <<points>>

sampleVars == <<path, calls>>

parseVars == <<t>>

treeVars == <<doc, node>>

extractVars == <<letter_id, holder, nodes, polylines, sampled>>

headerVars == <<per_letter, f>>

mainVars == <<todo, log>>

argVars == <<gap, step>>

vars == <<pc, out, splitVars, sampleVars, parseVars, treeVars, extractVars,
          headerVars, mainVars, argVars>>

None == "None"

\* The variables a specification does not use stay at None.
IdleSplit == points = None

IdleSample == path = None /\ calls = None

IdleParse == t = None

IdleTree == doc = None /\ node = None

IdleExtract ==
    /\ letter_id = None /\ holder = None /\ nodes = None
    /\ polylines = None /\ sampled = None

IdleHeader == per_letter = None /\ f = None

IdleMain == todo = None /\ log = None

IdleArgs == gap = None /\ step = None

(* ------------------------------ numbers ------------------------------- *)

MantBits == 8

Abs(x) == IF x < 0 THEN -x ELSE x

Max2(a, b) == IF a >= b THEN a ELSE b

Min2(a, b) == IF a <= b THEN a ELSE b

RECURSIVE Pow2(_)
Pow2(k) == IF k = 0 THEN 1 ELSE 2 * Pow2(k - 1)

\* The spacing of representable values at magnitude m: 1 below 2^MantBits,
\* doubling with each further binade.
Limit == Pow2(MantBits)

RECURSIVE Ulp(_)
Ulp(m) == IF m < Limit THEN 1 ELSE 2 * Ulp(m \div 2)

\* Round-to-nearest, ties-to-even, of the exact result x of one operation.
fl(x) ==
    IF Abs(x) < Limit THEN x ELSE
    LET m == Abs(x)
        u == Ulp(m)
        lo == (m \div u) * u
        r == m - lo
        q == m \div u
        up == IF 2 * r > u THEN TRUE
              ELSE IF 2 * r < u THEN FALSE
              ELSE q % 2 = 1
        v == IF up THEN lo + u ELSE lo
    IN  IF x < 0 THEN -v ELSE v

fadd(a, b) == fl(a + b)

fsub(a, b) == fl(a - b)

fmul(a, b) == fl(a * b)

Representable(x) == fl(x) = x

(* --------------------------- split_on_gaps ---------------------------- *)

\* math.hypot(x - px, y - py) > gap.  On the integer-valued coordinates of
\* the model the squared distance and gap*gap are integers, so the rounded
\* square root exceeds gap exactly when the squares compare that way.
exceeds_ge(p, q, g) ==
    LET dx == fsub(p[1], q[1])
        dy == fsub(p[2], q[2])
    IN  dx * dx + dy * dy >= g * g

exceeds(p, q, g) ==
    LET dx == fsub(p[1], q[1])
        dy == fsub(p[2], q[2])
    IN  dx * dx + dy * dy > g * g

\* The loop of lines 113-117 from input index k on: acc is `out`, prev is
\* (px, py).
RECURSIVE split_loop(_, _, _, _, _)
split_loop(pts, g, k, acc, prev) ==
    IF k > Len(pts) THEN acc
    ELSE LET p == pts[k]
             opened == IF exceeds(p, prev, g) THEN Append(acc, <<>>) ELSE acc
             n == Len(opened)
             added == [opened EXCEPT ![n] = Append(opened[n], p)]
         IN  split_loop(pts, g, k + 1, added, p)

keep_any(poly) == Len(poly) > 0

\* The filter of line 118.
keep(poly) == Len(poly) > 1

RECURSIVE SelectPolys(_)
SelectPolys(ps) ==
    IF ps = <<>> THEN <<>>
    ELSE IF keep(Head(ps)) THEN <<Head(ps)>> \o SelectPolys(Tail(ps))
         ELSE SelectPolys(Tail(ps))

split_on_gaps(pts, g) ==
    IF pts = <<>> THEN <<>>
    ELSE SelectPolys(split_loop(pts, g, 2, << <<pts[1]>> >>, pts[1]))

(* ----------------------- inputs of split_on_gaps ---------------------- *)

MaxPoints == 4

SplitCoords ==
    {<<0, 0>>, <<1, 0>>, <<3, 4>>, <<50, 0>>, <<51, 0>>, <<100, 0>>, <<200, 0>>}

SplitGaps == {1, 5, 10, 50}

SeqsUpTo(S, n) == UNION {[1..k -> S] : k \in 0..n}

InitSplit ==
    /\ pc = "split"
    /\ points \in SeqsUpTo(SplitCoords, MaxPoints)
    /\ gap \in SplitGaps
    /\ step = None
    /\ out = None
    /\ IdleSample /\ IdleParse /\ IdleTree /\ IdleExtract /\ IdleHeader
    /\ IdleMain

CallSplit ==
    /\ pc = "split"
    /\ out' = split_on_gaps(points, gap)
    /\ pc' = "done"
    /\ UNCHANGED <<splitVars, sampleVars, parseVars, treeVars, extractVars,
                   headerVars, mainVars, argVars>>

NextSplit == CallSplit

SpecSplit == InitSplit /\ [][NextSplit]_vars

\* The squared Euclidean distance between input points k-1 and k.
Dist2(k) ==
    (points[k][1] - points[k - 1][1]) * (points[k][1] - points[k - 1][1])
    + (points[k][2] - points[k - 1][2]) * (points[k][2] - points[k - 1][2])

\* Input point k lies farther than gap from input point k-1.
Break(k) == Dist2(k) > gap * gap

\* The input indices at which a run starts, and the last index of the run
\* that starts at a.
RunStarts == {k \in 1..Len(points) : k = 1 \/ Break(k)}

RunEnd(a) ==
    CHOOSE b \in a..Len(points) :
        /\ \A k \in (a + 1)..b : ~Break(k)
        /\ b = Len(points) \/ Break(b + 1)

KeptStarts == {a \in RunStarts : RunEnd(a) > a}

GapExample == <<<<0, 0>>, <<1, 0>>, <<50, 0>>, <<51, 0>>>>

\* C1: split_on_gaps starts a polyline with the first point and starts a new
\* one at a later point exactly when its distance to the preceding input
\* point strictly exceeds gap; the retained polylines are the runs of two or
\* more points, in input order with their points in input order; the example
\* [(0,0),(1,0),(50,0),(51,0)] with gap 10 yields [[(0,0),(1,0)],[(50,0),(51,0)]].
C1_SplitAtGaps ==
    pc = "done" =>
        /\ Len(out) = Cardinality(KeptStarts)
        /\ \A j \in 1..Len(out) :
               \E a \in KeptStarts :
                   /\ Cardinality({b \in KeptStarts : b < a}) = j - 1
                   /\ out[j] = SubSeq(points, a, RunEnd(a))
        /\ (points = GapExample /\ gap = 10) =>
               out = <<<<<<0, 0>>, <<1, 0>>>>, <<<<50, 0>>, <<51, 0>>>>>>

\* Two polylines are returned and a point at distance exactly gap from its
\* predecessor stayed inside one of them.
C1_Witness ==
    /\ pc = "done"
    /\ Len(out) = 2
    /\ \E k \in 2..Len(points) : Dist2(k) = gap * gap /\ ~(k \in RunStarts)

\* C2: every polyline split_on_gaps returns has at least 2 points; an input
\* whose consecutive points are all farther apart than gap yields no
\* polyline, and an empty input yields an empty output.
C2_NoSinglePoint ==
    pc = "done" =>
        /\ \A j \in 1..Len(out) : Len(out[j]) >= 2
        /\ (\A k \in 2..Len(points) : Break(k)) => out = <<>>
        /\ points = <<>> => out = <<>>

\* A run of one point was dropped between or after retained polylines.
C2_Witness ==
    /\ pc = "done"
    /\ Len(out) >= 1
    /\ \E a \in RunStarts : RunEnd(a) = a

(* ------------------------ sample_path_uniform ------------------------- *)

\* A curve is the record [L, x0, y0, dx, dy, raises]: its length(), the start
\* and unit direction of the straight segment it runs along, and the arc
\* lengths at which its ilength() raises.  A curve parameter is the quotient
\* num/den, kept unreduced.

\* The least integer not below a / b, for a >= 0 and b > 0.
CeilDiv(a, b) == (a + b - 1) \div b

\* a / b rounded to the nearest coordinate unit, ties to even.
RoundDiv(a, b) ==
    LET q == a \div b
        r == a - q * b
    IN  IF 2 * r > b \/ (2 * r = b /\ q % 2 = 1) THEN q + 1 ELSE q

\* a / b scaled by powers of two until the quotient has MantBits bits:
\* a / b = (num / den) * 2^e with 2^(MantBits-1) <= num / den < 2^MantBits.
RECURSIVE Scaled(_, _, _)
Scaled(a, b, e) ==
    IF a \div b >= Limit THEN Scaled(a, 2 * b, e + 1)
    ELSE IF a \div b < Limit \div 2 THEN Scaled(2 * a, b, e - 1)
    ELSE [num |-> a, den |-> b, e |-> e]

\* math.ceil(a / b) of line 95 for a > 0, b > 0: the quotient is rounded to
\* the nearest representable value first, then taken up to an integer.
CeilOfQuotient(a, b) ==
    LET sc == Scaled(a, b, 0)
        m == RoundDiv(sc.num, sc.den)
    IN  IF sc.e >= 0 THEN m * Pow2(sc.e) ELSE CeilDiv(m, Pow2(-sc.e))

\* n of line 95.
SampleN(p, st) == Max2(1, CeilOfQuotient(p.L, st))

\* s of line 98 for loop index i.
SampleS(p, st, i) == Min2(fmul(i, st), p.L)

SampleT_stale(p, s, i, n) ==
    IF s \in p.raises THEN [num |-> i, den |-> n + 1]
    ELSE [num |-> s, den |-> p.L]

\* t of lines 99-102: the parameter path.ilength(s) returns, or i / n when
\* the lookup raises.
SampleT(p, s, i, n) ==
    IF s \in p.raises THEN [num |-> i, den |-> n]
    ELSE [num |-> s, den |-> p.L]

\* path.point(t) as (z.real, z.imag), lines 103-104.
PathPoint(p, tt) ==
    LET at == RoundDiv(tt.num * p.L, tt.den)
    IN  <<fadd(p.x0, fmul(p.dx, at)), fadd(p.y0, fmul(p.dy, at))>>

\* The (s, t) of every iteration of the loop of lines 97-104, in order.
sample_calls(p, st) ==
    IF p.L <= 0 THEN <<>>
    ELSE LET n == SampleN(p, st)
         IN  [k \in 1..(n + 1) |->
                 LET s == SampleS(p, st, k - 1)
                 IN  [s |-> s, t |-> SampleT(p, s, k - 1, n)]]

sample_path_uniform(p, st) ==
    LET cs == sample_calls(p, st)
    IN  [k \in 1..Len(cs) |-> PathPoint(p, cs[k].t)]

(* -------------------- inputs of sample_path_uniform ------------------- *)

MaxL == 12

MaxStep == 5

MaxRaises == 2

SampleExample == <<100, 7>>

\* Lengths and steps beyond 2^MantBits, where the quotient of line 95 and
\* the products of line 98 are rounded.
RoundedPairs == {<<394, 131>>, <<268, 89>>, <<388, 129>>, <<264, 87>>}

SamplePairs ==
    ((0..MaxL) \X (1..MaxStep)) \cup {SampleExample} \cup RoundedPairs

Line(L, x0, y0, dx, dy, raises) ==
    [L |-> L, x0 |-> x0, y0 |-> y0, dx |-> dx, dy |-> dy, raises |-> raises]

\* The arc lengths the sampler asks for on a curve of length L.
Asked(L, st) ==
    IF L <= 0 THEN {}
    ELSE {Min2(fmul(i, st), L) : i \in 0..Max2(1, CeilOfQuotient(L, st))}

InitSample ==
    /\ pc = "sample"
    /\ \E pr \in SamplePairs :
          /\ step = pr[2]
          /\ \E rs \in SUBSET Asked(pr[1], pr[2]) :
                /\ Cardinality(rs) <= MaxRaises
                /\ path = Line(pr[1], 0, 0, 1, 0, rs)
    /\ calls = <<>>
    /\ out = None
    /\ gap = None
    /\ IdleSplit /\ IdleParse /\ IdleTree /\ IdleExtract /\ IdleHeader
    /\ IdleMain

CallSample ==
    /\ pc = "sample"
    /\ out' = sample_path_uniform(path, step)
    /\ calls' = sample_calls(path, step)
    /\ pc' = "done"
    /\ UNCHANGED <<path, splitVars, parseVars, treeVars, extractVars,
                   headerVars, mainVars, argVars>>

NextSample == CallSample

SpecSample == InitSample /\ [][NextSample]_vars

\* ceil(L / step) as line 95 evaluates it.
CeilQuot == CeilOfQuotient(path.L, step)

\* C3: for L > 0 and step > 0 the sampler produces exactly ceil(L/step)+1
\* points, asked for at arc lengths 0, step, 2*step, ... capped at L, in
\* non-decreasing order, the first at 0 and the last, and only the last, at
\* L; for L <= 0 it produces nothing; L = 100 with step 7 gives 16 points.
C3_SampleCount ==
    pc = "done" =>
        /\ path.L <= 0 => out = <<>>
        /\ path.L > 0 =>
              /\ Len(out) = CeilQuot + 1
              /\ Len(calls) = Len(out)
              /\ \A k \in 1..Len(calls) :
                    calls[k].s = Min2(fmul(k - 1, step), path.L)
              /\ \A k \in 1..(Len(calls) - 1) : calls[k].s <= calls[k + 1].s
              /\ calls[1].s = 0
              /\ calls[Len(calls)].s = path.L
              /\ Cardinality({k \in 1..Len(calls) : calls[k].s = path.L}) = 1
        /\ (path.L = 100 /\ step = 7) => Len(out) = 16

\* C10: a sample whose arc-length lookup raises uses t = i/n with
\* n = ceil(L/step), and it alone: the curve still yields n+1 points and each
\* sample whose lookup succeeds uses the parameter looked up for its own arc
\* length.
C10_FallbackPerSample ==
    (pc = "done" /\ path.L > 0) =>
        /\ Len(out) = CeilQuot + 1
        /\ \A k \in 1..Len(calls) :
              /\ calls[k].s \in path.raises =>
                    calls[k].t = [num |-> k - 1, den |-> CeilQuot]
              /\ calls[k].s \notin path.raises =>
                    calls[k].t = [num |-> calls[k].s, den |-> path.L]
              /\ out[k] = PathPoint(path, calls[k].t)

\* A lookup raised for a sample in the middle of a curve while the samples
\* before and after it were looked up.
C10_Witness ==
    /\ pc = "done"
    /\ \E k \in 2..(Len(calls) - 1) :
          /\ calls[k].s \in path.raises
          /\ calls[k].t = [num |-> k - 1, den |-> Len(calls) - 1]
          /\ calls[k - 1].s \notin path.raises
          /\ calls[k + 1].s \notin path.raises

(* ---------------------------- affine utils ---------------------------- *)

mat(a, b, c, d, e, ff) == <<<<a, c, e>>, <<b, d, ff>>, <<0, 0, 1>>>>

I == <<<<1, 0, 0>>, <<0, 1, 0>>, <<0, 0, 1>>>>

\* sum(A[i][k]*B[k][j] for k in range(3)): the sum starts from 0 and adds the
\* three products in order.
mul(A, B) ==
    [i \in 1..3 |->
        [j \in 1..3 |->
            fadd(fadd(fadd(0, fmul(A[i][1], B[1][j])),
                      fmul(A[i][2], B[2][j])),
                 fmul(A[i][3], B[3][j]))]]

apply(M, x, y) ==
    <<fadd(fadd(fmul(M[1][1], x), fmul(M[1][2], y)), M[1][3]),
      fadd(fadd(fmul(M[2][1], x), fmul(M[2][2], y)), M[2][3])>>

(* ------------------------ _parse_transform_attr ----------------------- *)

\* A transform attribute is [has |-> whether the attribute is present,
\* str |-> its text].  The text is a sequence of symbols: a recognized
\* operation name, a run of other letters ("foo", "x"), "(", ")", a numeric
\* literal, " " or ",".  Letters that are adjacent in the sequence are
\* adjacent in the text: <<"x", "scale">> is the text xscale.  A numeric
\* literal is always delimited by a symbol that is no literal.

TxnNames == {"matrix", "translate", "scale", "rotate", "skewX", "skewY"}

OtherLetters == {"foo", "x"}

\* float(v) on the numeric literals of the model.
FloatOf ==
    ("0" :> 0) @@ ("1" :> 1) @@ ("2" :> 2) @@ ("3" :> 3) @@ ("5" :> 5)
    @@ ("7" :> 7) @@ ("10" :> 10)

IsNumber(sym) == sym \in DOMAIN FloatOf

\* The first index >= i of s that holds no white space (Len(s)+1 when none).
RECURSIVE SkipBlanks(_, _)
SkipBlanks(s, i) ==
    IF i <= Len(s) /\ s[i] = " " THEN SkipBlanks(s, i + 1) ELSE i

\* The first index >= i of s that holds ")" (0 when none).
RECURSIVE FindClose(_, _)
FindClose(s, i) ==
    IF i > Len(s) THEN 0
    ELSE IF s[i] = ")" THEN i
    ELSE FindClose(s, i + 1)

\* _txn_re.findall(t) from index i on: the (name, args) of every
\* non-overlapping match of
\*   (matrix|translate|scale|rotate|skewX|skewY)\s*\(([^)]*)\)
\* scanning left to right.  The pattern is not anchored: a match starts at
\* any name, whatever precedes it.
RECURSIVE FindAll(_, _)
FindAll(s, i) ==
    IF i > Len(s) THEN <<>>
    ELSE IF s[i] \in TxnNames
         THEN LET k == SkipBlanks(s, i + 1)
                  c == IF k <= Len(s) /\ s[k] = "(" THEN FindClose(s, k + 1)
                       ELSE 0
              IN  IF c = 0 THEN FindAll(s, i + 1)
                  ELSE <<[name |-> s[i], args |-> SubSeq(s, k + 1, c - 1)]>>
                       \o FindAll(s, c + 1)
         ELSE FindAll(s, i + 1)

\* The pieces of an argument list, line 53: args.strip() split on runs of
\* blanks and commas, the empty pieces dropped.
RECURSIVE Pieces(_)
Pieces(a) ==
    IF a = <<>> THEN <<>>
    ELSE IF Head(a) \in {" ", ","} THEN Pieces(Tail(a))
    ELSE <<Head(a)>> \o Pieces(Tail(a))

\* vals of line 53: [err |-> "" and v |-> the floats, or err |-> the
\* exception float() raises on a piece that is no number].
Vals(a) ==
    LET ps == Pieces(a)
    IN  IF \E k \in 1..Len(ps) : ~IsNumber(ps[k])
        THEN [err |-> "ValueError", v |-> <<>>]
        ELSE [err |-> "", v |-> [k \in 1..Len(ps) |-> FloatOf[ps[k]]]]

\* math.cos, math.sin and math.tan of math.radians(deg), for the angle at
\* which all three are integers in binary64.
CosDeg(deg) == CASE deg = 0 -> 1

SinDeg(deg) == CASE deg = 0 -> 0

TanDeg(deg) == CASE deg = 0 -> 0

Ok(M) == [err |-> "", T |-> M]

Raise(e) == [err |-> e, T |-> <<>>]

\* The matrix M of one match, lines 54-72, or the exception the branch
\* raises (vals[0] of an empty list).
OpMatrix(name, vals) ==
    IF name = "matrix" /\ Len(vals) = 6
    THEN Ok(mat(vals[1], vals[2], vals[3], vals[4], vals[5], vals[6]))
    ELSE IF name \in {"translate", "scale", "rotate", "skewX", "skewY"}
            /\ Len(vals) = 0
    THEN Raise("IndexError")
    ELSE IF name = "translate"
    THEN Ok(mat(1, 0, 0, 1, vals[1], IF Len(vals) > 1 THEN vals[2] ELSE 0))
    ELSE IF name = "scale"
    THEN Ok(mat(vals[1], 0, 0, IF Len(vals) > 1 THEN vals[2] ELSE vals[1],
                0, 0))
    ELSE IF name = "rotate"
    THEN Ok(mat(CosDeg(vals[1]), SinDeg(vals[1]), -SinDeg(vals[1]),
                CosDeg(vals[1]), 0, 0))
    ELSE IF name = "skewX"
    THEN Ok(<<<<1, TanDeg(vals[1]), 0>>, <<0, 1, 0>>, <<0, 0, 1>>>>)
    ELSE IF name = "skewY"
    THEN Ok(<<<<1, 0, 0>>, <<TanDeg(vals[1]), 1, 0>>, <<0, 0, 1>>>>)
    ELSE Ok(I)

\* The loop of lines 52-73 over the matches ms from match k on, T so far.
RECURSIVE parse_loop(_, _, _)
parse_loop(ms, k, T) ==
    IF k > Len(ms) THEN Ok(T)
    ELSE LET vals == Vals(ms[k].args)
         IN  IF vals.err # "" THEN Raise(vals.err)
             ELSE LET M == OpMatrix(ms[k].name, vals.v)
                  IN  IF M.err # "" THEN M
                      ELSE parse_loop(ms, k + 1, mul(T, M.T))

\* [err |-> "", T |-> the matrix returned], or err |-> the exception raised.
_parse_transform_attr(a) ==
    IF ~a.has \/ a.str = <<>> THEN Ok(I)
    ELSE parse_loop(FindAll(a.str, 1), 1, I)

(* ------------------- inputs of _parse_transform_attr ------------------ *)

MaxOps == 3

\* The pieces a transform text of the model is put together from.
TxnPieces ==
    { <<"translate", "(", "10", ",", "0", ")">>,
      <<"translate", " ", "(", "3", ")">>,
      <<"scale", "(", "2", ",", "1", ")">>,
      <<"scale", "(", "2", ")">>,
      <<"matrix", "(", "1", " ", "0", " ", "0", " ", "1", " ", "5", " ", "7", ")">>,
      <<"matrix", "(", "2", ",", "3", ")">>,
      <<"rotate", "(", "0", ")">>,
      <<"skewX", "(", "0", ")">>,
      <<"skewY", "(", "0", ")">>,
      <<"foo", "(", "5", ")">>,
      <<"x">>,
      <<" ">>,
      <<"translate", "(", ")">>,
      <<"scale", "(", "x", ")">> }

RECURSIVE Flatten(_)
Flatten(ss) == IF ss = <<>> THEN <<>> ELSE Head(ss) \o Flatten(Tail(ss))

TxnTexts == {Flatten(ss) : ss \in SeqsUpTo(TxnPieces, MaxOps)}

Attr(s) == [has |-> TRUE, str |-> s]

NoAttr == [has |-> FALSE, str |-> <<>>]

InitParse ==
    /\ pc = "parse"
    /\ t \in {NoAttr} \cup {Attr(s) : s \in TxnTexts}
    /\ out = None
    /\ IdleSplit /\ IdleSample /\ IdleTree /\ IdleExtract /\ IdleHeader
    /\ IdleMain /\ IdleArgs

CallParse ==
    /\ pc = "parse"
    /\ out' = _parse_transform_attr(t)
    /\ pc' = "done"
    /\ UNCHANGED <<splitVars, sampleVars, parseVars, treeVars, extractVars,
                   headerVars, mainVars, argVars>>

NextParse == CallParse

SpecParse == InitParse /\ [][NextParse]_vars

\* The operations of a transform text as the attribute's grammar reads it:
\* a name is a maximal run of letters, followed by optional white space and
\* a parenthesized argument list.
IsLetters(sym) == sym \in TxnNames \cup OtherLetters

RECURSIVE EndOfWord(_, _)
EndOfWord(s, i) ==
    IF i <= Len(s) /\ IsLetters(s[i]) THEN EndOfWord(s, i + 1) ELSE i

RECURSIVE ReadOps(_, _)
ReadOps(s, i) ==
    IF i > Len(s) THEN <<>>
    ELSE IF IsLetters(s[i])
         THEN LET j == EndOfWord(s, i)
                  k == SkipBlanks(s, j)
                  c == IF k <= Len(s) /\ s[k] = "(" THEN FindClose(s, k + 1)
                       ELSE 0
              IN  IF c = 0 THEN ReadOps(s, j)
                  ELSE <<[name |-> SubSeq(s, i, j - 1),
                          args |-> SubSeq(s, k + 1, c - 1)]>>
                       \o ReadOps(s, c + 1)
         ELSE ReadOps(s, i + 1)

Recognized(op) == Len(op.name) = 1 /\ op.name[1] \in TxnNames

\* Every operation with a recognized name has an argument list the code
\* accepts.
WellFormed(ops) ==
    \A k \in 1..Len(ops) :
        Recognized(ops[k]) =>
            /\ Vals(ops[k].args).err = ""
            /\ OpMatrix(ops[k].name[1], Vals(ops[k].args).v).err = ""

\* M1 * (M2 * (... * Mk)) over the operations, identity for an operation
\* whose name is not recognized.
RECURSIVE OpsProduct(_)
OpsProduct(ops) ==
    IF ops = <<>> THEN I
    ELSE mul(IF Recognized(Head(ops))
             THEN OpMatrix(Head(ops).name[1], Vals(Head(ops).args).v).T
             ELSE I,
             OpsProduct(Tail(ops)))

\* C5: the parser returns identity for an absent or empty transform text, and
\* otherwise the product, left to right in encounter order, of the matrices
\* of the operations with a recognized name; an operation with any other
\* name contributes identity, never fails the parse and leaves the
\* contribution of the other operations alone.
C5_UnrecognizedIsIdentity ==
    pc = "done" =>
        /\ (~t.has \/ t.str = <<>>) => out = Ok(I)
        /\ WellFormed(ReadOps(t.str, 1)) => out = Ok(OpsProduct(ReadOps(t.str, 1)))

(* --------------------------- world_transform -------------------------- *)

\* The document is a sequence of element records, the root first, in
\* document order: [parent |-> index of the parent (0 for the root), tag |->
\* local name, id |-> the id attribute ("" when absent), d |-> the d
\* attribute, transform |-> the transform attribute].

Element(parent, tag, id, d, transform) ==
    [parent |-> parent, tag |-> tag, id |-> id, d |-> d,
     transform |-> transform]

\* The loop of lines 80-82: the parsed transform of cur, then of its
\* parent, up to the root.
RECURSIVE chain_up(_, _)
chain_up(dc, cur) ==
    IF cur = 0 THEN <<>>
    ELSE <<_parse_transform_attr(dc[cur].transform)>>
         \o chain_up(dc, dc[cur].parent)

Reverse(s) == [k \in 1..Len(s) |-> s[Len(s) + 1 - k]]

chain_order_asis(chain) == chain

\* reversed(chain) of line 84.
chain_order(chain) == Reverse(chain)

\* The loop of lines 84-85 from element k of the ordered chain on.
RECURSIVE fold_mul(_, _, _)
fold_mul(ms, k, T) ==
    IF k > Len(ms) THEN T ELSE fold_mul(ms, k + 1, mul(T, ms[k].T))

\* [err |-> "", T |-> the matrix], or the exception the first failing
\* parse of the walk raised.
world_transform(dc, nd) ==
    LET chain == chain_up(dc, nd)
        bad == {k \in 1..Len(chain) : chain[k].err # ""}
    IN  IF bad # {}
        THEN Raise(chain[CHOOSE k \in bad : \A j \in bad : k <= j].err)
        ELSE Ok(fold_mul(chain_order(chain), 1, I))

(* ----------------------- inputs of world_transform -------------------- *)

MaxDepth == 3

NoD == [attr |-> "absent", curve |-> Line(0, 0, 0, 0, 0, {})]

Translate10 == Attr(<<"translate", "(", "10", ",", "0", ")">>)

Scale21 == Attr(<<"scale", "(", "2", ",", "1", ")">>)

WorldAttrs ==
    { NoAttr, Attr(<<>>), Translate10, Scale21,
      Attr(<<"translate", "(", "3", ")", " ", "scale", "(", "2", ")">>),
      Attr(<<"matrix", "(", "1", " ", "2", " ", "0", " ", "1", " ", "5", " ", "7", ")">>),
      Attr(<<"foo", "(", "5", ")">>) }

\* A chain of nested groups: element k is the only child of element k-1.
Chains ==
    UNION { { [k \in 1..n |-> Element(k - 1, "g", "", NoD, tr[k])] :
                tr \in [1..n -> WorldAttrs] } : n \in 1..MaxDepth }

InitWorld ==
    /\ pc = "world"
    /\ doc \in Chains
    /\ node \in 1..Len(doc)
    /\ out = None
    /\ IdleSplit /\ IdleSample /\ IdleParse /\ IdleExtract /\ IdleHeader
    /\ IdleMain /\ IdleArgs

CallWorld ==
    /\ pc = "world"
    /\ out' = world_transform(doc, node)
    /\ pc' = "done"
    /\ UNCHANGED <<splitVars, sampleVars, parseVars, treeVars, extractVars,
                   headerVars, mainVars, argVars>>

NextWorld == CallWorld

SpecWorld == InitWorld /\ [][NextWorld]_vars

\* The local transform of element k: identity without a transform attribute.
Local(k) ==
    IF ~doc[k].transform.has THEN I
    ELSE _parse_transform_attr(doc[k].transform).T

\* The product of the local transforms from the root down to element k,
\* the root leftmost.
RECURSIVE RootToNode(_)
RootToNode(k) ==
    IF doc[k].parent = 0 THEN Local(k)
    ELSE mul(RootToNode(doc[k].parent), Local(k))

\* C4: world_transform(node) is the product of the local transforms of the
\* node's ancestor chain in root-to-node order, at any depth; a node with
\* scale(2,1) under a parent with translate(10,0) maps (1,0) to (12,0).
C4_RootToNodeOrder ==
    pc = "done" =>
        /\ out = Ok(RootToNode(node))
        /\ ( /\ doc[node].transform = Scale21
             /\ doc[node].parent # 0
             /\ doc[doc[node].parent].transform = Translate10
             /\ \A k \in 1..Len(doc) :
                    k < doc[node].parent => ~doc[k].transform.has )
           => apply(out.T, 1, 0) = <<12, 0>>

\* The node two levels deep with scale(2,1) under translate(10,0) was
\* resolved.
C4_Witness ==
    /\ pc = "done"
    /\ node = 3
    /\ doc[3].transform = Scale21
    /\ doc[2].transform = Translate10
    /\ ~doc[1].transform.has
    /\ apply(out.T, 1, 0) = <<12, 0>>

(* ----------------------- extract_letter_polylines --------------------- *)

\* The d attribute of an element is [attr |-> "absent", "empty" (d="") or
\* "text", curve |-> what parse_path(d) returns].

RECURSIVE IsAncestor(_, _, _)
IsAncestor(dc, a, k) ==
    /\ dc[k].parent # 0
    /\ (dc[k].parent = a \/ IsAncestor(dc, a, dc[k].parent))

\* The members of a set of element indices in document order.
RECURSIVE InDocOrder(_)
InDocOrder(S) ==
    IF S = {} THEN <<>>
    ELSE LET m == CHOOSE x \in S : \A y \in S : x <= y
         IN  <<m>> \o InDocOrder(S \ {m})

MatchesId_any(el, id) == TRUE

\* The predicate [@id='letter_id'] of line 164.
MatchesId(el, id) == el.id = id

\* root.xpath(".//*[@id=...]"), line 164: the descendants of the root, the
\* root itself not among them.
Targets(dc, id) ==
    InDocOrder({k \in 2..Len(dc) : MatchesId(dc[k], id)})

\* holder.xpath(".//*[local-name()='path' and @d]"), line 170.
PathNodes(dc, h) ==
    InDocOrder({k \in 1..Len(dc) :
                   /\ IsAncestor(dc, h, k)
                   /\ dc[k].tag = "path"
                   /\ dc[k].d.attr # "absent"})

\* nodes after lines 170-172: holder.get("d") is true of a non-empty text.
CollectNodes(dc, h) ==
    IF PathNodes(dc, h) = <<>> /\ dc[h].tag = "path" /\ dc[h].d.attr = "text"
    THEN <<h>>
    ELSE PathNodes(dc, h)

\* Lines 178-181 for one node: [err |-> "", polys |-> the polylines it
\* contributes], or the exception world_transform raised.
NodePolylines(dc, nd, st, g) ==
    LET T == world_transform(dc, nd)
        smp == sample_path_uniform(dc[nd].d.curve, st)
    IN  IF T.err # "" THEN [err |-> T.err, polys |-> <<>>]
        ELSE [err |-> "",
              polys |-> split_on_gaps(
                  [k \in 1..Len(smp) |-> apply(T.T, smp[k][1], smp[k][2])], g)]

\* The y coordinates of all points of all polylines.
AllYs(polys) ==
    UNION { {polys[j][k][2] : k \in 1..Len(polys[j])} : j \in 1..Len(polys) }

SetMin(S) == CHOOSE x \in S : \A y \in S : x <= y

SetMax(S) == CHOOSE x \in S : \A y \in S : x >= y

FlipPoint_nomin(pt, miny, maxy) == <<pt[1], fsub(maxy, pt[2])>>

\* (x, maxy - (y - miny)) of line 193.
FlipPoint(pt, miny, maxy) == <<pt[1], fsub(maxy, fsub(pt[2], miny))>>

\* The loop of lines 191-193 with the given bounds.
FlipWith(polys, miny, maxy) ==
    [j \in 1..Len(polys) |->
        [k \in 1..Len(polys[j]) |-> FlipPoint(polys[j][k], miny, maxy)]]

\* Lines 183-194.
FlipY(polys) ==
    IF polys = <<>> THEN <<>>
    ELSE FlipWith(polys, SetMin(AllYs(polys)), SetMax(AllYs(polys)))

\* The loop of lines 177-181 from node k of ns on.
RECURSIVE gather(_, _, _, _, _, _)
gather(dc, ns, k, st, g, acc) ==
    IF k > Len(ns) THEN [err |-> "", polys |-> acc]
    ELSE LET r == NodePolylines(dc, ns[k], st, g)
         IN  IF r.err # "" THEN r
             ELSE gather(dc, ns, k + 1, st, g, acc \o r.polys)

\* Lines 183-194 after the loop, or the exception the loop ended with.
flipped(r) ==
    IF r.err # "" THEN r ELSE [err |-> "", polys |-> FlipY(r.polys)]

\* The whole function: [err |-> "", polys |-> the outline returned].
extract_letter_polylines(dc, id, st, g) ==
    LET targets == Targets(dc, id)
    IN  IF targets = <<>> THEN [err |-> "", polys |-> <<>>]
        ELSE flipped(gather(dc, CollectNodes(dc, targets[1]), 1, st, g, <<>>))

(* ------------------ inputs of extract_letter_polylines ---------------- *)

MaxNodes == 3

DefaultStep == 7

DefaultGap == 20

BadTranslate == Attr(<<"translate", "(", ")">>)

\* A vertical stroke from (0,1) to (0,15), a horizontal stroke of length 30
\* at y = 2, a vertical stroke from (0,1) to (0,300), and the curve of an
\* empty d.
StrokeA == Line(14, 0, 1, 0, 1, {})

StrokeC == Line(299, 0, 1, 0, 1, {})

StrokeB == Line(30, 0, 2, 1, 0, {})

NoCurve == Line(0, 0, 0, 0, 0, {})

EmptyD == [attr |-> "empty", curve |-> NoCurve]

TextD(c) == [attr |-> "text", curve |-> c]

\* The elements a document of the model is put together from (the parent is
\* filled in by ExtractDocs).
ElementKinds ==
    { Element(0, "g", "", NoD, NoAttr),
      Element(0, "g", "a", NoD, NoAttr),
      Element(0, "g", "", NoD, Translate10),
      Element(0, "path", "", NoD, NoAttr),
      Element(0, "path", "a", NoD, NoAttr),
      Element(0, "path", "", EmptyD, NoAttr),
      Element(0, "path", "", TextD(StrokeA), NoAttr),
      Element(0, "path", "", TextD(StrokeA), Translate10),
      Element(0, "path", "", TextD(StrokeC), NoAttr),
      Element(0, "path", "", TextD(StrokeA), BadTranslate),
      Element(0, "path", "a", TextD(StrokeA), NoAttr),
      Element(0, "path", "", TextD(StrokeB), NoAttr) }

\* Element k - 1 and its ancestors: the possible parents of element k when
\* the elements are numbered in document order.
RECURSIVE Spine(_, _)
Spine(parents, k) ==
    IF k = 0 THEN {} ELSE {k} \cup Spine(parents, parents[k])

RECURSIVE ParentMaps(_)
ParentMaps(n) ==
    IF n = 1 THEN {<<0>>}
    ELSE UNION { {Append(ps, q) : q \in Spine(ps, n - 1)} :
                   ps \in ParentMaps(n - 1) }

ExtractDocs ==
    UNION { { [k \in 1..n |->
                 IF k = 1 THEN Element(0, "svg", rootid, NoD, NoAttr)
                 ELSE [kinds[k] EXCEPT !.parent = ps[k]]] :
              ps \in ParentMaps(n),
              kinds \in [1..n -> ElementKinds],
              rootid \in {"", "a"} } : n \in 1..MaxNodes }

\* step and gap as the command line gives them: the defaults, or a step
\* wider than the gap.
ExtractArgs == {<<DefaultStep, DefaultGap>>, <<DefaultGap + 10, DefaultGap>>}

InitExtract ==
    /\ pc = "lookup"
    /\ doc \in ExtractDocs
    /\ node = None
    /\ letter_id = "a"
    /\ \E a \in ExtractArgs : step = a[1] /\ gap = a[2]
    /\ holder = 0
    /\ nodes = <<>>
    /\ polylines = <<>>
    /\ sampled = 0
    /\ out = None
    /\ IdleSplit /\ IdleSample /\ IdleParse /\ IdleHeader /\ IdleMain

\* Lines 164-167.
Lookup ==
    /\ pc = "lookup"
    /\ LET targets == Targets(doc, letter_id)
       IN  IF targets = <<>>
           THEN /\ out' = <<>>
                /\ pc' = "done"
                /\ UNCHANGED holder
           ELSE /\ holder' = targets[1]
                /\ pc' = "collect"
                /\ UNCHANGED out
    /\ UNCHANGED <<letter_id, nodes, polylines, sampled>>
    /\ UNCHANGED <<splitVars, sampleVars, parseVars, treeVars, headerVars,
                   mainVars, argVars>>

\* Lines 170-176.
Collect ==
    /\ pc = "collect"
    /\ nodes' = CollectNodes(doc, holder)
    /\ IF nodes' = <<>>
       THEN out' = <<>> /\ pc' = "done"
       ELSE pc' = "sample" /\ UNCHANGED out
    /\ UNCHANGED <<letter_id, holder, polylines, sampled>>
    /\ UNCHANGED <<splitVars, sampleVars, parseVars, treeVars, headerVars,
                   mainVars, argVars>>

\* One iteration of the loop of lines 177-181.
SampleNode ==
    /\ pc = "sample"
    /\ nodes # <<>>
    /\ LET r == NodePolylines(doc, Head(nodes), step, gap)
       IN  IF r.err # ""
           THEN /\ pc' = "raised"
                /\ out' = r.err
                /\ UNCHANGED <<polylines, sampled, nodes>>
           ELSE /\ polylines' = polylines \o r.polys
                /\ sampled' = sampled + 1
                /\ nodes' = Tail(nodes)
                /\ pc' = IF Tail(nodes) = <<>> THEN "flip" ELSE "sample"
                /\ UNCHANGED out
    /\ UNCHANGED <<letter_id, holder>>
    /\ UNCHANGED <<splitVars, sampleVars, parseVars, treeVars, headerVars,
                   mainVars, argVars>>

\* Lines 183-194.
Flip ==
    /\ pc = "flip"
    /\ out' = FlipY(polylines)
    /\ pc' = "done"
    /\ UNCHANGED <<letter_id, holder, nodes, polylines, sampled>>
    /\ UNCHANGED <<splitVars, sampleVars, parseVars, treeVars, headerVars,
                   mainVars, argVars>>

NextExtract == Lookup \/ Collect \/ SampleNode \/ Flip

SpecExtract == InitExtract /\ [][NextExtract]_vars

GlyphMinY == SetMin(AllYs(polylines))

GlyphMaxY == SetMax(AllYs(polylines))

\* The outline returned has the polylines, the points and the x coordinates
\* of the polylines gathered, in the same order.
SameShape ==
    /\ Len(out) = Len(polylines)
    /\ \A j \in 1..Len(out) :
          /\ Len(out[j]) = Len(polylines[j])
          /\ \A k \in 1..Len(out[j]) : out[j][k][1] = polylines[j][k][1]

\* C6 as stated: every point (x, y) of the glyph is mapped to
\* (x, maxY - (y - minY)), minY and maxY being the least and greatest y of
\* the glyph's own points, and flipping the result again with the same minY
\* and maxY gives back the original points exactly.
C6_FlipTwiceIsExact ==
    (pc = "done" /\ polylines # <<>>) =>
        /\ SameShape
        /\ \A j \in 1..Len(out) : \A k \in 1..Len(out[j]) :
              out[j][k][2] = GlyphMaxY - (polylines[j][k][2] - GlyphMinY)
        /\ FlipWith(out, GlyphMinY, GlyphMaxY) = polylines

\* The subtractions of the two flips of y lose nothing to rounding.
ExactFor(y) ==
    /\ Representable(y - GlyphMinY)
    /\ Representable(GlyphMaxY - (y - GlyphMinY))
    /\ Representable(GlyphMaxY - y)

\* C6 as amended: every point (x, y) is mapped to (x, maxY - (y - minY))
\* evaluated in floating point, with minY and maxY of the glyph's own
\* points; count, order and x are unchanged; a second flip with the same
\* minY and maxY gives back a point exactly whenever the subtractions
\* y - minY, maxY - (y - minY) and maxY - y are exact.
C6_FlipTwiceWhenExact ==
    (pc = "done" /\ polylines # <<>>) =>
        /\ SameShape
        /\ \A j \in 1..Len(out) : \A k \in 1..Len(out[j]) :
              /\ out[j][k][2] =
                    fsub(GlyphMaxY, fsub(polylines[j][k][2], GlyphMinY))
              /\ ExactFor(polylines[j][k][2]) =>
                    FlipPoint(out[j][k], GlyphMinY, GlyphMaxY) = polylines[j][k]

\* A glyph of two or more distinct heights was flipped: its lowest point
\* went to the top and a second flip brings it back.
C6_Witness ==
    /\ pc = "done"
    /\ polylines # <<>>
    /\ GlyphMinY < GlyphMaxY
    /\ \E j \in 1..Len(out) : \E k \in 1..Len(out[j]) :
          /\ polylines[j][k][2] = GlyphMinY
          /\ out[j][k][2] = GlyphMaxY
          /\ ExactFor(polylines[j][k][2])
          /\ FlipPoint(out[j][k], GlyphMinY, GlyphMaxY) = polylines[j][k]

\* Element k is a path that has a d attribute.
HasCurveData(k) == doc[k].tag = "path" /\ doc[k].d.attr # "absent"

\* C8: the extractor returns an empty outline, raises nothing and samples
\* nothing when no element of the document carries the requested id, and
\* also when the matched element has no descendant path with a d attribute
\* and is not itself such a path.
C8_EmptyOutline ==
    LET noId == \A k \in 1..Len(doc) : doc[k].id # letter_id
        noCurve == /\ holder # 0
                   /\ ~HasCurveData(holder)
                   /\ \A k \in 1..Len(doc) :
                         IsAncestor(doc, holder, k) => ~HasCurveData(k)
    IN  /\ pc = "done" /\ (noId \/ noCurve) => out = <<>> /\ sampled = 0
        /\ pc = "raised" => ~noId /\ ~noCurve
        /\ pc \in {"sample", "flip"} => ~noId /\ ~noCurve

\* The requested id was found on an element that holds no path with curve
\* data, and the empty outline was returned.
C8_Witness ==
    /\ pc = "done"
    /\ holder # 0
    /\ ~HasCurveData(holder)
    /\ \A k \in 1..Len(doc) : IsAncestor(doc, holder, k) => ~HasCurveData(k)
    /\ \E k \in 1..Len(doc) : HasCurveData(k)
    /\ out = <<>>

(* ----------------------------- write_header --------------------------- *)

\* letters of line 252: chr(c) for c from ord('a') to ord('z').
Letters ==
    <<"a", "b", "c", "d", "e", "f", "g", "h", "i", "j", "k", "l", "m",
      "n", "o", "p", "q", "r", "s", "t", "u", "v", "w", "x", "y", "z">>

\* sorted(per_letter.keys()): the keys are single lower-case letters, which
\* sort in alphabet order.
RECURSIVE KeysFrom(_, _)
KeysFrom(pl, k) ==
    IF k > Len(Letters) THEN <<>>
    ELSE IF Letters[k] \in DOMAIN pl THEN <<Letters[k]>> \o KeysFrom(pl, k + 1)
    ELSE KeysFrom(pl, k + 1)

SortedKeys(pl) == KeysFrom(pl, 1)

\* The rows of the header file that carry data.  The coordinates of the
\* model are whole numbers, which the format {x:.2f} prints without loss; a
\* point row is held as the pair it prints.
Row(kind, lid, x, y, n) == [kind |-> kind, lid |-> lid, x |-> x, y |-> y, n |-> n]

NanRow(lid) == Row("NAN", lid, 0, 0, 0)

\* Lines 219-221 for one polyline.
PointRows(lid, poly) ==
    [k \in 1..Len(poly) |-> Row("pt", lid, poly[k][1], poly[k][2], 0)]

\* The loop of lines 215-221 from polyline k on; first is the flag of line
\* 213.
RECURSIVE poly_rows(_, _, _, _)
poly_rows(lid, polys, k, first) ==
    IF k > Len(polys) THEN <<>>
    ELSE (IF ~first THEN <<NanRow(lid)>> ELSE <<>>)
         \o PointRows(lid, polys[k])
         \o poly_rows(lid, polys, k + 1, FALSE)

\* count of line 221 after the loop.
RECURSIVE PointCount(_)
PointCount(polys) ==
    IF polys = <<>> THEN 0 ELSE Len(Head(polys)) + PointCount(Tail(polys))

Seps_all(polys) == Len(polys)

\* seps of line 223.
Seps(polys) == IF Len(polys) > 1 THEN Len(polys) - 1 ELSE 0

\* Lines 209-225 for one glyph.
GlyphRows(lid, polys) ==
    <<Row("array", lid, 0, 0, 0)>>
    \o poly_rows(lid, polys, 1, TRUE)
    \o <<Row("len", lid, 0, 0, PointCount(polys) + Seps(polys))>>

\* The loop of line 208 from key k of the sorted keys on.
RECURSIVE glyph_loop(_, _, _)
glyph_loop(pl, keys, k) ==
    IF k > Len(keys) THEN <<>>
    ELSE GlyphRows(keys[k], pl[keys[k]]) \o glyph_loop(pl, keys, k + 1)

\* The file written: its data rows and the LETTERS_PRESENT string.
write_header(pl) ==
    [rows |-> glyph_loop(pl, SortedKeys(pl), 1),
     letters_present |-> SortedKeys(pl)]

(* ------------------------- inputs of write_header --------------------- *)

MaxPolys == 3

\* An outline of k polylines of two points each; Outline(2) is
\* [[(0,0),(1,1)],[(2,2),(3,3)]].
Outline(k) ==
    [j \in 1..k |-> <<<<2 * j - 2, 2 * j - 2>>, <<2 * j - 1, 2 * j - 1>>>>]

\* The same outline with a third point on its first polyline.
OutlineLong(k) ==
    [j \in 1..k |->
        IF j = 1 THEN <<<<0, 0>>, <<1, 1>>, <<1, 2>>>> ELSE Outline(k)[j]]

HeaderOutlines == {Outline(k) : k \in 1..MaxPolys} \cup {OutlineLong(k) : k \in 1..MaxPolys}

HeaderIds == {"a", "m", "z"}

\* A registry as main leaves it: some ids, each with a non-empty outline of
\* polylines of two or more points.
Registries == UNION {[ids -> HeaderOutlines] : ids \in SUBSET HeaderIds}

InitHeader ==
    /\ pc = "write_header"
    /\ per_letter \in Registries
    /\ f = <<>>
    /\ out = None
    /\ IdleSplit /\ IdleSample /\ IdleParse /\ IdleTree /\ IdleExtract
    /\ IdleMain /\ IdleArgs

CallHeader ==
    /\ pc = "write_header"
    /\ f' = write_header(per_letter)
    /\ pc' = "done"
    /\ UNCHANGED <<out, per_letter, splitVars, sampleVars, parseVars,
                   treeVars, extractVars, mainVars, argVars>>

NextHeader == CallHeader

SpecHeader == InitHeader /\ [][NextHeader]_vars

\* The index in the file of the row of the given kind of glyph lid.
RowAt(kind, lid) ==
    CHOOSE k \in 1..Len(f.rows) : f.rows[k].kind = kind /\ f.rows[k].lid = lid

\* The rows the file holds between the opening and the length of glyph lid.
Body(lid) == SubSeq(f.rows, RowAt("array", lid) + 1, RowAt("len", lid) - 1)

\* The points of the polylines in order, one marker between each two
\* consecutive polylines.
RECURSIVE Joined(_, _)
Joined(lid, polys) ==
    IF Len(polys) = 1 THEN PointRows(lid, polys[1])
    ELSE PointRows(lid, polys[1]) \o <<NanRow(lid)>> \o Joined(lid, Tail(polys))

PositionOf(lid) == CHOOSE k \in 1..Len(Letters) : Letters[k] = lid

\* C7: the header holds the glyphs in ascending id order; each glyph's rows
\* are the points of its polylines in order with exactly one {NAN, NAN}
\* between consecutive polylines and none before the first or after the
\* last; its _len is the number of those rows: the point count plus (number
\* of polylines - 1) for more than one polyline, the raw point count
\* otherwise; [[(0,0),(1,1)],[(2,2),(3,3)]] gives one marker and length 5.
C7_HeaderRows ==
    pc = "done" =>
        /\ \A lid \in DOMAIN per_letter :
              /\ Cardinality({k \in 1..Len(f.rows) : f.rows[k].lid = lid /\ f.rows[k].kind = "array"}) = 1
              /\ Cardinality({k \in 1..Len(f.rows) : f.rows[k].lid = lid /\ f.rows[k].kind = "len"}) = 1
              /\ Body(lid) = Joined(lid, per_letter[lid])
              /\ f.rows[RowAt("len", lid)].n = Len(Body(lid))
              /\ f.rows[RowAt("len", lid)].n =
                    PointCount(per_letter[lid])
                    + (IF Len(per_letter[lid]) > 1 THEN Len(per_letter[lid]) - 1 ELSE 0)
              /\ per_letter[lid] = Outline(2) =>
                    /\ f.rows[RowAt("len", lid)].n = 5
                    /\ Cardinality({k \in 1..Len(Body(lid)) : Body(lid)[k].kind = "NAN"}) = 1
        /\ \A k \in 1..Len(f.rows) : f.rows[k].lid \in DOMAIN per_letter
        /\ \A a \in DOMAIN per_letter : \A b \in DOMAIN per_letter :
              PositionOf(a) < PositionOf(b) => RowAt("len", a) < RowAt("array", b)

\* A header of several glyphs was written, the example outline among them
\* with length 5, next to a glyph of a single polyline.
C7_Witness ==
    /\ pc = "done"
    /\ Cardinality(DOMAIN per_letter) >= 2
    /\ \E lid \in DOMAIN per_letter :
          per_letter[lid] = Outline(2) /\ f.rows[RowAt("len", lid)].n = 5
    /\ \E lid \in DOMAIN per_letter :
          Len(per_letter[lid]) = 1 /\ f.rows[RowAt("len", lid)].n = Len(per_letter[lid][1])

(* --------------------------------- main ------------------------------- *)

after_empty_break(rest) == <<>>

\* `continue` of line 258: the sweep goes on with the ids that remain.
after_empty(rest) == rest

(* ----------------------------- inputs of main ------------------------- *)

MaxChildren == 2

MainIds == {"a", "m", "z"}

\* The children of the root in the documents of the sweep: a path that
\* yields an outline, a path with an empty d, a group without paths, and a
\* path whose transform is rejected.
MainKinds ==
    { [tag |-> "path", d |-> TextD(StrokeA), transform |-> NoAttr],
      [tag |-> "path", d |-> EmptyD, transform |-> NoAttr],
      [tag |-> "g", d |-> NoD, transform |-> NoAttr],
      [tag |-> "path", d |-> TextD(StrokeA), transform |-> BadTranslate] }

MainDocs ==
    UNION { { [k \in 1..(n + 1) |->
                 IF k = 1 THEN Element(0, "svg", "", NoD, NoAttr)
                 ELSE Element(1, kinds[k - 1].tag, ids[k - 1], kinds[k - 1].d,
                              kinds[k - 1].transform)] :
              kinds \in [1..n -> MainKinds], ids \in [1..n -> MainIds] } :
            n \in 0..MaxChildren }

\* Lines 251-254 are done: the tree is parsed, the registry is empty.
InitMain ==
    /\ pc = "sweep"
    /\ doc \in MainDocs
    /\ node = None
    /\ step = DefaultStep
    /\ gap = DefaultGap
    /\ todo = Letters
    /\ per_letter = <<>>
    /\ log = <<>>
    /\ f = <<>>
    /\ out = None
    /\ IdleSplit /\ IdleSample /\ IdleParse /\ IdleExtract

\* One iteration of the loop of lines 255-262.
SweepStep ==
    /\ pc = "sweep"
    /\ todo # <<>>
    /\ \E lid \in {Head(todo)} :
       \E r \in {extract_letter_polylines(doc, lid, step, gap)} :
          IF r.err # ""
          THEN /\ pc' = "raised"
               /\ UNCHANGED <<todo, per_letter, log>>
          ELSE IF r.polys = <<>>
          THEN /\ todo' = after_empty(Tail(todo))
               /\ UNCHANGED <<pc, per_letter, log>>
          ELSE /\ per_letter' = (lid :> r.polys) @@ per_letter
               /\ log' = log \o <<<<"set", lid>>, <<"save_png", lid>>>>
               /\ todo' = Tail(todo)
               /\ UNCHANGED pc
    /\ UNCHANGED <<out, f, splitVars, sampleVars, parseVars, treeVars,
                   extractVars, argVars>>

\* Lines 264-265.
Abort ==
    /\ pc = "sweep"
    /\ todo = <<>>
    /\ DOMAIN per_letter = {}
    /\ pc' = "aborted"
    /\ UNCHANGED <<out, f, per_letter, todo, log, splitVars, sampleVars,
                   parseVars, treeVars, extractVars, argVars>>

\* Line 267.
WriteHeader ==
    /\ pc = "sweep"
    /\ todo = <<>>
    /\ DOMAIN per_letter # {}
    /\ f' = write_header(per_letter)
    /\ log' = Append(log, <<"write_header", "">>)
    /\ pc' = "done"
    /\ UNCHANGED <<out, per_letter, todo, splitVars, sampleVars, parseVars,
                   treeVars, extractVars, argVars>>

NextMain == SweepStep \/ Abort \/ WriteHeader

SpecMain == InitMain /\ [][NextMain]_vars

\* The outline the extractor returns for an id of the sweep.
OutlineOf(lid) == extract_letter_polylines(doc, lid, step, gap).polys

\* The ids the sweep has gone through.
Processed == {Letters[k] : k \in 1..(Len(Letters) - Len(todo))}

LogCount(e) == Cardinality({k \in 1..Len(log) : log[k] = e})

\* C9: the sweep takes the ids a..z in order, each once; an id with an empty
\* outline is skipped, never registered, and the sweep goes on; an id with an
\* outline is written to its registry key exactly once; write_header is
\* called only after all 26 ids and only with a non-empty registry; with an
\* empty registry after the sweep the run aborts and write_header is never
\* called.
C9_Sweep ==
    /\ Len(todo) <= 26
    /\ todo = SubSeq(Letters, 26 - Len(todo) + 1, 26)
    /\ DOMAIN per_letter \subseteq Processed
    /\ \A lid \in Processed :
          IF OutlineOf(lid) = <<>>
          THEN lid \notin DOMAIN per_letter /\ LogCount(<<"set", lid>>) = 0
          ELSE /\ lid \in DOMAIN per_letter
               /\ per_letter[lid] = OutlineOf(lid)
               /\ LogCount(<<"set", lid>>) = 1
    /\ LogCount(<<"write_header", "">>) = (IF pc = "done" THEN 1 ELSE 0)
    /\ pc = "done" =>
          /\ todo = <<>>
          /\ DOMAIN per_letter # {}
          /\ log[Len(log)] = <<"write_header", "">>
    /\ pc = "aborted" => todo = <<>> /\ DOMAIN per_letter = {}
    /\ (pc = "sweep" /\ todo = <<>>) =>
          \/ DOMAIN per_letter = {} /\ ENABLED Abort /\ ~ENABLED WriteHeader
          \/ DOMAIN per_letter # {} /\ ENABLED WriteHeader /\ ~ENABLED Abort

\* The sweep skipped an id whose element holds no curve and an id that is
\* absent, registered a later id, and wrote the header at the end.
C9_Witness ==
    /\ pc = "done"
    /\ \E k \in 1..Len(doc) : doc[k].id = "a"
    /\ "a" \notin DOMAIN per_letter
    /\ "z" \in DOMAIN per_letter
    /\ log = <<<<"set", "z">>, <<"save_png", "z">>, <<"write_header", "">>>>

====
